---- MODULE Spec2Model ----
(***************************************************************************)
(* sqlite-cdc: change capture on a SQLite source (CDCConnection), the      *)
(* audit-log reader (AuditReader), the initial bulk copy (InitialSync) and *)
(* the orchestration of both towards the targets (SyncEngine).             *)
(*                                                                         *)
(* Data abstraction.  One business table layout (id INTEGER PRIMARY KEY,   *)
(* name TEXT): a table is a function from keys to a name, 0 meaning that   *)
(* no row has the key.  A row image (the dict of a row, or the JSON text   *)
(* of it) is the record [id, name]; NoData is the NULL image.  row_id is   *)
(* a text column: 0 is NULL, k > 0 the decimal text of key k, -v the       *)
(* text of a name v that is no number.  The names in NumericNames are      *)
(* written with digits ("2"): as a text they are the decimal text of the   *)
(* key of the same number.  The row_id of a ChangeEvent is an int or a    *)
(* str: the record [kind, text] keeps its Python type next to its text.    *)
(***************************************************************************)
EXTENDS Integers, Sequences, FiniteSets, TLC

\* ------------------------------------------------------------------ bounds
MaxKey == 21
MaxVal == 2
MaxAudit == 3
BatchSize == 2
MaxCrash == 1
MaxFail == 1
MaxStop == 1

\* _sync_with_pagination stores a checkpoint every tenth batch
CheckpointEvery == 10

\* RetryPolicy.max_retries (default)
max_retries == 3

Keys == 1..MaxKey
Vals == 1..MaxVal
Tables == {"users", "logs"}
Ops == {"INSERT", "UPDATE", "DELETE"}

NoData == [id |-> 0, name |-> 0]
RowImage(k, v) == IF v = 0 THEN NoData ELSE [id |-> k, name |-> v]
EmptyTable == [k \in Keys |-> 0]

\* ------------------------------------------------------------ configuration
\* CDCConnection(conn, enabled_tables=["users"])
enabled_tables == {"users"}
\* config.mappings: one TableMapping(source_table="users"), no field mapping
mappings == {"users"}
\* TableMapping.primary_key of that mapping (its default)
primary_key == "id"
\* source.db_path as the configuration file may give it: relative to the
\* working directory, or absolute
DbPaths == {"app.db", "/data/app.db"}
\* TableMapping.filter_condition of that mapping: "name = '1'"
filter_condition(row) == row.name = 1

VARIABLES
    src,        \* committed business tables of the source database
    audit,      \* committed rows of _cdc_audit_log, in id order (id = index)
    txn,        \* the writer connection's open transaction (pending view)
    writes,     \* history: the committed business write statements
    reader,     \* AuditReader: _running, _last_audit_id
    returned,   \* history: from_id of the reader, the ids it has returned
                \* since start(from_id), and every id it ever returned
    batch,      \* the events the last fetch_batch call returned to its caller
    targets,    \* config.targets of the engine: the names of its writers
    tgt,        \* the table "users" on every target database
    pos,        \* sync_positions.last_audit_id per target (0: no row stored)
    ickpt,      \* initial_sync_checkpoints row of table "users"
    eng,        \* SyncEngine: where it is, _running, status
    work,       \* the target calls of the batch still to make or in flight
    isync,      \* locals of _sync_with_pagination
    consumed_ids,   \* local of _run_incremental_sync
    env,        \* history: crashes and target failures so far
    applied,    \* history: the events each target has applied
    startPos,   \* history: the cursors loaded when streaming started
    batchInfo,  \* history: the batch in progress, what failed in it
    handover,   \* history: max(audit id) when the initial sync began, or -1
    hist,       \* history: what sync_table copied and returned, failed writes
    sync_errors,    \* the rows of the checkpoint store's table sync_errors
    sync_positions  \* the rows of the table sync_positions of a
                    \* CheckpointStore opened on a file of its own

capVars == <<src, audit, txn, writes>>
readVars == <<reader, returned, batch>>
engVars == <<targets, tgt, pos, ickpt, eng, work, isync, consumed_ids, env,
             applied, startPos, batchInfo, handover, hist, sync_errors, sync_positions>>
vars == <<src, audit, txn, writes, reader, returned, batch, targets, tgt, pos,
          ickpt, eng, work, isync, consumed_ids, env, applied, startPos,
          batchInfo, handover, hist, sync_errors, sync_positions>>

\* ------------------------------------------------------------ SQL classifier
\* parse_sql: a statement is the record of what the classifier and the
\* capture layer read off its text: op ("SELECT" for what is no write),
\* table, the key its WHERE (or VALUES) names, the new name, whether the WHERE
\* filters on ROWID or on a column, and whether the SET value is passed as a
\* parameter ("SET name = ?") or written in the text.
parse_operation(stmt) == IF stmt.op \in Ops THEN stmt.op ELSE "NONE"

\* Mutant of should_audit_with: the allow-list is not looked at.
should_audit_any(tables, table_name) == TRUE

\* _should_audit on a connection whose _enabled_tables is tables
should_audit_with(tables, table_name) ==
    IF tables = {} THEN TRUE ELSE table_name \in tables

should_audit(table_name) == should_audit_with(enabled_tables, table_name)

\* str(value) of a name passed as a parameter
NumericNames == {2}
ParamText(v) == IF v \in NumericNames THEN v ELSE -v

\* params of the statement, in order; 0 when the position does not exist
FirstParam(stmt) ==
    IF stmt.op = "UPDATE" /\ stmt.setParam THEN ParamText(stmt.val) ELSE stmt.key
ParamCount(stmt) ==
    IF stmt.op = "UPDATE" /\ stmt.setParam THEN 2 ELSE 1

\* --------------------------------------------------------- the SQLite source
\* sqlite3 executes the business statement on the pending view.
\* "failed" is the statement raising (INSERT of an existing key).
StmtFails(tbls, stmt) ==
    stmt.op = "INSERT" /\ tbls[stmt.table][stmt.key] # 0

ApplyStmt(tbls, stmt) ==
    CASE stmt.op = "INSERT" -> [tbls EXCEPT ![stmt.table][stmt.key] = stmt.val]
      [] stmt.op = "UPDATE" ->
            IF tbls[stmt.table][stmt.key] # 0
            THEN [tbls EXCEPT ![stmt.table][stmt.key] = stmt.val]
            ELSE tbls
      [] stmt.op = "DELETE" -> [tbls EXCEPT ![stmt.table][stmt.key] = 0]
      [] OTHER -> tbls

\* ------------------------------------------------------- capture interceptor
\* _fetch_before_data: SELECT * FROM t WHERE <where> LIMIT 1 with the
\* statement's parameters; every exception (here: the SET parameter makes the
\* binding count wrong) is swallowed and gives None.
fetch_before_data(tbls, stmt) ==
    IF ParamCount(stmt) # 1 THEN NoData
    ELSE RowImage(stmt.key, tbls[stmt.table][stmt.key])

\* _extract_row_id_from_where: no selected column is named ROWID, so the id is
\* str(params[0]) when the WHERE mentions ROWID, else None.
extract_row_id_from_where(stmt) ==
    IF stmt.where = "rowid" THEN FirstParam(stmt) ELSE 0

\* _fetch_after_data: SELECT * FROM t WHERE ROWID = row_id
fetch_after_data(tbls, table_name, row_id) ==
    IF row_id \in Keys THEN RowImage(row_id, tbls[table_name][row_id])
    ELSE NoData

AuditRow(i, t, op, rid, before, after) ==
    [id |-> i, table_name |-> t, operation |-> op, row_id |-> rid,
     before_data |-> before, after_data |-> after, consumed |-> FALSE]

\* _write_audit_log: INSERT INTO _cdc_audit_log; AUTOINCREMENT gives the next
\* id of the pending view (a rollback also rolls the sequence back).
write_audit_log(rows, t, op, rid, before, after) ==
    Append(rows, AuditRow(Len(rows) + 1, t, op, rid, before, after))

\* _execute_with_audit on the pending view tx; auditFails: the audit INSERT
\* raises (json.dumps of a value that is no JSON, a full disk).  The business
\* statement has run by then and stays in the transaction.
execute_with_audit(tx, stmt, auditFails) ==
    LET before == IF stmt.op \in {"UPDATE", "DELETE"}
                  THEN fetch_before_data(tx.src, stmt) ELSE NoData
        rid0   == IF stmt.op \in {"UPDATE", "DELETE"}
                  THEN extract_row_id_from_where(stmt) ELSE 0
        nsrc   == ApplyStmt(tx.src, stmt)
        rid    == IF stmt.op = "INSERT" THEN stmt.key ELSE rid0
        after  == IF stmt.op \in {"INSERT", "UPDATE"}
                  THEN fetch_after_data(nsrc, stmt.table, rid) ELSE NoData
    IN  [open   |-> TRUE,
         src    |-> nsrc,
         audit  |-> IF auditFails THEN tx.audit
                    ELSE write_audit_log(tx.audit, stmt.table, stmt.op,
                                         rid, before, after),
         writes |-> Append(tx.writes, [table |-> stmt.table, op |-> stmt.op])]

\* CDCConnection.execute on a connection whose _enabled_tables is tables
execute_with(tables, tx, stmt, auditFails) ==
    IF parse_operation(stmt) # "NONE" /\ should_audit_with(tables, stmt.table)
    THEN execute_with_audit(tx, stmt, auditFails)
    ELSE IF parse_operation(stmt) # "NONE"
         THEN [tx EXCEPT !.open = TRUE, !.src = ApplyStmt(tx.src, stmt)]
         ELSE tx

\* CDCConnection.execute on the configured connection
execute(tx, stmt, auditFails) == execute_with(enabled_tables, tx, stmt, auditFails)

\* The statements the writers issue.
StmtOf(op, t, k, v, w, sp) ==
    [op |-> op, table |-> t, key |-> k, val |-> v, where |-> w, setParam |-> sp]

SelectStmts(tabs) == {StmtOf("SELECT", t, k, 0, "col", FALSE) : t \in tabs, k \in Keys}

\* execute(sql, params) on the writer connection
Execute(stmts, failures) ==
    \E stmt \in stmts, auditFails \in failures :
        /\ Len(txn.audit) < MaxAudit
        /\ Len(txn.writes) < MaxAudit
        /\ ~StmtFails(txn.src, stmt)
        /\ auditFails => (parse_operation(stmt) # "NONE" /\ should_audit(stmt.table))
        /\ txn' = execute(txn, stmt, auditFails)
        /\ UNCHANGED <<src, audit, writes, readVars, engVars>>

\* executemany(sql, parameters) on an audited table: _execute_with_audit once
\* per parameter set, in order; the first exception ends the loop and leaves
\* what ran before it in the transaction.  failAt: the position whose audit
\* INSERT raises (0: none).
RECURSIVE executemany_audited(_, _, _)
executemany_audited(tx, stmts, failAt) ==
    IF stmts = <<>> \/ StmtFails(tx.src, Head(stmts)) THEN tx
    ELSE IF failAt = 1 THEN execute_with_audit(tx, Head(stmts), TRUE)
    ELSE executemany_audited(execute_with_audit(tx, Head(stmts), FALSE),
                             Tail(stmts), failAt - 1)

\* sqlite3's own executemany, for tables outside the allow-list
RECURSIVE ApplyMany(_, _)
ApplyMany(tbls, stmts) ==
    IF stmts = <<>> \/ StmtFails(tbls, Head(stmts)) THEN tbls
    ELSE ApplyMany(ApplyStmt(tbls, Head(stmts)), Tail(stmts))

\* CDCConnection.executemany
executemany(tx, stmts, failAt) ==
    IF parse_operation(stmts[1]) # "NONE" /\ should_audit(stmts[1].table)
    THEN executemany_audited(tx, stmts, failAt)
    ELSE [tx EXCEPT !.open = TRUE, !.src = ApplyMany(tx.src, stmts)]

\* executemany(sql, [params1, params2]) on the writer connection
ExecuteMany(stmts, keys, failures) ==
    \E stmt \in stmts, k2 \in keys, failAt \in failures :
        /\ Len(txn.audit) + 2 <= MaxAudit
        /\ Len(txn.writes) + 2 <= MaxAudit
        /\ parse_operation(stmt) # "NONE"
        /\ ~StmtFails(txn.src, stmt)
        /\ failAt > 0 => should_audit(stmt.table)
        /\ txn' = executemany(txn, <<stmt, [stmt EXCEPT !.key = k2]>>, failAt)
        /\ UNCHANGED <<src, audit, writes, readVars, engVars>>

\* commit(): the pending view becomes the committed state
Commit ==
    /\ txn.open
    /\ src' = txn.src
    /\ audit' = txn.audit
    /\ writes' = txn.writes
    /\ txn' = [txn EXCEPT !.open = FALSE]
    /\ UNCHANGED <<readVars, engVars>>

\* rollback(): the pending view is discarded
Rollback ==
    /\ txn.open
    /\ txn' = [open |-> FALSE, src |-> src, audit |-> audit, writes |-> writes]
    /\ UNCHANGED <<src, audit, writes, readVars, engVars>>

InitSource ==
    /\ src = [t \in Tables |-> EmptyTable]
    /\ audit = <<>>
    /\ writes = <<>>
    /\ txn = [open |-> FALSE, src |-> [t \in Tables |-> EmptyTable],
              audit |-> <<>>, writes |-> <<>>]

\* ------------------------------------------------------------- audit reader
Min(a, b) == IF a < b THEN a ELSE b

\* AuditLog(...) in _row_to_audit_log: the model validator of AuditLog
AuditLogRaises(row) ==
    \/ row.operation = "INSERT" /\ row.after_data = NoData
    \/ row.operation = "DELETE" /\ row.before_data = NoData

\* AuditLog.to_change_event, the row key: row_id or "" for NULL, then
\* int(row_id) when the text is a number, the text itself when int() raises
row_key(row_id) ==
    [kind |-> IF row_id > 0 THEN "int" ELSE "str", text |-> row_id]

\* AuditLog.to_change_event; event_id is "<id>:<table_name>:<row_id>"
to_change_event(row) ==
    [event_id |-> <<row.id, row.table_name, row.row_id>>,
     audit_id |-> row.id, operation |-> row.operation,
     table_name |-> row.table_name, row_id |-> row_key(row.row_id),
     before_data |-> row.before_data, after_data |-> row.after_data]

\* AuditLog.from_change_event: the id is the first part of event_id, row_id
\* is str(event.row_id); consumed_at keeps its default
from_change_event(event) ==
    [id |-> event.event_id[1], table_name |-> event.table_name,
     operation |-> event.operation, row_id |-> event.row_id.text,
     before_data |-> event.before_data, after_data |-> event.after_data,
     consumed |-> FALSE]

ChangeEventRaises(ev) ==
    \/ ev.operation = "INSERT" /\ ev.after_data = NoData
    \/ ev.operation = "DELETE" /\ ev.before_data = NoData
    \/ ev.operation = "UPDATE"
          /\ (ev.before_data = NoData \/ ev.after_data = NoData)

\* a payload text that is no JSON
BadJson == [id |-> -1, name |-> -1]

\* json.loads in _row_to_audit_log: JSONDecodeError is swallowed and leaves None
json_loads(text) == IF text = BadJson THEN NoData ELSE text

\* _row_to_audit_log up to the AuditLog(...) call
row_to_audit_log(row) ==
    [row EXCEPT !.before_data = json_loads(@), !.after_data = json_loads(@)]

ConvertRaises(row) ==
    \/ AuditLogRaises(row_to_audit_log(row))
    \/ ChangeEventRaises(to_change_event(row_to_audit_log(row)))

\* Mutant of fetch_unconsumed: the filter on consumed_at is missing.
fetch_with_consumed(rows, last_id, limit) ==
    LET sel == SelectSeq(rows, LAMBDA r : r.id > last_id)
    IN  SubSeq(sel, 1, Min(limit, Len(sel)))

\* Mutant of fetch_unconsumed: the newest rows first (ORDER BY id DESC LIMIT ?).
fetch_unconsumed_newest(rows, last_id, limit) ==
    LET sel == SelectSeq(rows, LAMBDA r : r.id > last_id /\ ~r.consumed)
    IN  SubSeq(sel, Len(sel) - Min(limit, Len(sel)) + 1, Len(sel))

\* _fetch_unconsumed: WHERE id > ? AND consumed_at IS NULL ORDER BY id LIMIT ?
fetch_unconsumed(rows, last_id, limit) ==
    LET sel == SelectSeq(rows, LAMBDA r : r.id > last_id /\ ~r.consumed)
    IN  SubSeq(sel, 1, Min(limit, Len(sel)))

\* fetch_batch of a running reader on the committed audit table: the rows are
\* converted in order, _last_audit_id moving with every converted row; a row
\* whose conversion raises ends the call with the exception.
fetch_batch(rows_all, last_id) ==
    LET rows == fetch_unconsumed(rows_all, last_id, BatchSize)
        bad  == {i \in DOMAIN rows : ConvertRaises(rows[i])}
        p    == IF bad = {} THEN 0
                ELSE CHOOSE i \in bad : \A j \in bad : i <= j
    IN  IF p = 0
        THEN [events |-> [i \in DOMAIN rows |->
                            to_change_event(row_to_audit_log(rows[i]))],
              last   |-> IF rows = <<>> THEN last_id ELSE rows[Len(rows)].id,
              raised |-> FALSE]
        ELSE [events |-> <<>>,
              last   |-> IF p > 1 THEN rows[p - 1].id ELSE last_id,
              raised |-> TRUE]

Ids(events) == [i \in DOMAIN events |-> events[i].audit_id]

Range(s) == {s[i] : i \in DOMAIN s}

\* AuditReader.start(from_id)
ReaderStart ==
    \E from_id \in 0..MaxAudit :
        /\ ~reader.running
        /\ from_id <= Len(audit)
        /\ reader' = [running |-> TRUE, last_audit_id |-> from_id]
        /\ returned' = [from |-> from_id, ids |-> <<>>, ever |-> returned.ever]
        /\ batch' = <<>>
        /\ UNCHANGED <<capVars, engVars>>

\* AuditReader.stop()
ReaderStop ==
    /\ reader.running
    /\ reader' = [reader EXCEPT !.running = FALSE]
    /\ UNCHANGED <<capVars, returned, batch, engVars>>

\* fetch_batch() called by the reader's client
FetchBatch ==
    /\ reader.running
    /\ LET r == fetch_batch(audit, reader.last_audit_id)
       IN  /\ reader' = [reader EXCEPT !.last_audit_id = r.last]
           /\ returned' = [returned EXCEPT !.ids = @ \o Ids(r.events),
                                         !.ever = @ \cup Range(Ids(r.events))]
           /\ batch' = r.events
    /\ UNCHANGED <<capVars, engVars>>

\* Mutant of mark_consumed: the UPDATE has no WHERE clause.
mark_all_consumed(rows, ids) ==
    [i \in DOMAIN rows |-> [rows[i] EXCEPT !.consumed = TRUE]]

\* mark_consumed(ids) with the ids of the batch just returned: one UPDATE,
\* committed on the reader's connection (the writer must hold no lock); an
\* empty list returns before any statement
mark_consumed(rows, ids) ==
    [i \in DOMAIN rows |->
        IF rows[i].id \in ids THEN [rows[i] EXCEPT !.consumed = TRUE]
        ELSE rows[i]]

MarkConsumed ==
    /\ reader.running
    /\ batch # <<>>
    /\ ~txn.open
    /\ audit' = mark_consumed(audit, Range(Ids(batch)))
    /\ txn' = [txn EXCEPT !.audit = audit']
    /\ batch' = <<>>
    /\ UNCHANGED <<src, writes, reader, returned, engVars>>

InitReader ==
    /\ reader = [running |-> FALSE, last_audit_id |-> 0]
    /\ returned = [from |-> 0, ids |-> <<>>, ever |-> {}]
    /\ batch = <<>>

\* ------------------------------------------------------------ target writers
AllTargets == {"A", "B"}
\* config.targets, in configuration order
TargetOrder == <<"A", "B">>
TargetSeq(ts) == SelectSeq(TargetOrder, LAMBDA t : t \in ts)

\* DataTransformer.transform with no field mapping: every field passes through
transform(data) == data

\* MySQLTargetWriter.batch_upsert: INSERT ... ON DUPLICATE KEY UPDATE per row,
\* in list order, one transaction
RECURSIVE batch_upsert(_, _)
batch_upsert(table, rows) ==
    IF rows = <<>> THEN table
    ELSE batch_upsert([table EXCEPT ![Head(rows).id] = Head(rows).name],
                      Tail(rows))

\* MySQLTargetWriter.delete: DELETE FROM t WHERE id = %s with event.row_id
\* ("" and a text that is no number match no row)
delete(table, row_id) ==
    IF row_id.text \in Keys THEN [table EXCEPT ![row_id.text] = 0] ELSE table

\* BaseTargetWriter._should_retry(attempt, error); retryable: the message of
\* the error holds one of the retryable words
should_retry(attempt, retryable) ==
    IF attempt >= max_retries THEN FALSE ELSE retryable

\* The ways a target call raises: with a retryable message or another one,
\* when the connection is acquired or committed, or when the statement runs.
Failures == [retryable : BOOLEAN, at : {"acquire", "execute"}]
ConnectionLost == {[retryable |-> TRUE, at |-> "acquire"]}

\* How often a call that raises has run its statement: _upsert_batch runs
\* executemany and, when that raises, every row once more with execute;
\* delete runs its statement once; no writer calls _should_retry.
write_attempts(kind, failure) ==
    IF kind = "upsert" /\ failure.at = "execute" THEN 2 ELSE 1

FailedCall(h, kind, failure) ==
    [h EXCEPT !.fail = [retryable |-> failure.retryable,
                        attempts |-> write_attempts(kind, failure)]]

\* ------------------------------------------------------------------- engine
MaxSeq(ids) == CHOOSE m \in Range(ids) : \A x \in Range(ids) : x <= m
MinOf(S) == CHOOSE m \in S : \A x \in S : m <= x

\* config.get_table_mapping
get_table_mapping(table_name) == table_name \in mappings

\* _process_events: the batch grouped by table, in order of first occurrence
RECURSIVE TableOrder(_)
TableOrder(events) ==
    IF events = <<>> THEN <<>>
    ELSE <<Head(events).table_name>> \o
         TableOrder(SelectSeq(Tail(events),
                    LAMBDA e : e.table_name # Head(events).table_name))

\* _process_table_events: the calls it makes on every target, in order: one
\* batch_upsert with the rows of all events that are no DELETE, then one
\* delete per DELETE event.  A table without mapping gets no call.
TableSteps(table_name, events) ==
    LET ups  == SelectSeq(events, LAMBDA e : e.operation # "DELETE")
        dels == SelectSeq(events, LAMBDA e : e.operation = "DELETE")
    IN  IF ~get_table_mapping(table_name) THEN <<>>
        ELSE (IF ups = <<>> THEN <<>>
              ELSE <<[kind |-> "upsert", events |-> ups]>>)
             \o [i \in DOMAIN dels |-> [kind |-> "delete", events |-> <<dels[i]>>]]

RECURSIVE StepsOf(_, _)
StepsOf(tables, events) ==
    IF tables = <<>> THEN <<>>
    ELSE TableSteps(Head(tables),
                    SelectSeq(events, LAMBDA e : e.table_name = Head(tables)))
         \o StepsOf(Tail(tables), events)

\* consumed_ids after _process_events: the ids, table group after table group
RECURSIVE GroupedIds(_, _)
GroupedIds(tables, events) ==
    IF tables = <<>> THEN <<>>
    ELSE Ids(SelectSeq(events, LAMBDA e : e.table_name = Head(tables)))
         \o GroupedIds(Tail(tables), events)

\* what one call of a step does to the table of a target
StepEffect(table, step) ==
    IF step.kind = "upsert"
    THEN batch_upsert(table,
            [i \in DOMAIN step.events |->
                transform(step.events[i].after_data)])
    ELSE delete(table, step.events[1].row_id)

NoWork == [steps |-> <<>>, pending |-> {}]
NoSync == [pk_column |-> "id",
           last_pk |-> 0, synced |-> 0, batch_num |-> 0, page |-> <<>>,
           pending |-> {}, failed |-> FALSE]
\* cut: the targets whose call the batch lost to a stop()
NoBatch == [max |-> 0, before |-> [t \in AllTargets |-> 0], failed |-> {},
            saved |-> FALSE, cut |-> {}]
\* history of sync_table: before, before_last: the rows the interrupted runs
\* had copied in completed batches and the last key of those; issued: the keys
\* given to batch_upsert in the current run; ret: what sync_table returned
\* resumed: the current run follows an interrupted one; fail: the last target
\* call that raised to the engine (attempts 0: none yet); reset: the operator
\* has reset the table and no sync_table has begun since; saved: the values
\* of the last save_position call per (source, target), zero when none;
\* scope: the scoped block of the writer connection that is open (form), and
\* for the last block left, the exception that left it and what its caller saw
ZeroCursor == [last_audit_id |-> 0, total_events |-> 0]
NoHist == [before |-> 0, before_last |-> 0, interrupted |-> FALSE,
           resumed |-> FALSE, issued |-> {}, ret |-> -1,
           fail |-> [retryable |-> FALSE, attempts |-> 0], reset |-> FALSE,
           saved |-> [p \in DbPaths \X AllTargets |-> ZeroCursor],
           scope |-> [form |-> "none", exc |-> "None", caller |-> "none"]]
Interrupted(h, s) ==
    [h EXCEPT !.before = @ + s.synced, !.before_last = s.last_pk,
              !.interrupted = TRUE]

\* stop: "no", "closing" (stop() has set the flags and closes the writers'
\* pools), "closed" (all pools and the source connection closed, _targets = [])
EngineDown == [pc |-> "down", running |-> FALSE, state |-> "idle",
               last_error |-> FALSE, stop |-> "no"]

\* SyncEngine(config) and start(run_initial): _running, state RUNNING, the
\* source connection, the writers connected.  connected = FALSE: connect() of
\* a writer raises in _init_targets, which start() awaits before its try
\* block, so start() raises and nothing else is set.  (The next instance is
\* constructed when no stop() of this one is still closing its writers.)
Start(cfgs, initials, connects) ==
    \E cfg \in cfgs, run_initial \in initials, connected \in connects :
        /\ eng.pc \in {"down", "failed"}
        /\ eng.stop # "closing"
        /\ targets \subseteq cfg
        /\ targets' = cfg
        /\ eng' = [pc |-> IF ~connected THEN "failed"
                          ELSE IF run_initial THEN "initial" ELSE "incremental",
                   running |-> TRUE, state |-> "running", last_error |-> FALSE,
                   stop |-> "no"]
        /\ applied' = [applied EXCEPT !.run = [t \in AllTargets |-> <<>>]]
        /\ handover' = -1
        /\ hist' = [hist EXCEPT !.issued = {}, !.ret = -1, !.resumed = FALSE]
        /\ UNCHANGED <<capVars, readVars, tgt, pos, ickpt, work, isync,
                       consumed_ids, env, startPos, batchInfo, sync_errors, sync_positions>>

\* _run_incremental_sync up to the loop: the cursors are loaded, the reader
\* starts at their minimum
IncrementalBegin ==
    /\ eng.pc = "incremental"
    /\ UNCHANGED <<hist, sync_errors, sync_positions>>
    /\ IF eng.stop = "closed"
       THEN /\ eng' = [eng EXCEPT !.pc = "failed", !.state = "error",
                                  !.last_error = TRUE]
            /\ UNCHANGED <<readVars, startPos, consumed_ids>>
       ELSE /\ LET start_id == IF targets = {} THEN 0
                               ELSE MinOf({pos[t] : t \in targets})
               IN  /\ reader' = [running |-> TRUE, last_audit_id |-> start_id]
                   /\ returned' = [from |-> start_id, ids |-> <<>>, ever |-> {}]
            /\ startPos' = pos
            /\ consumed_ids' = <<>>
            /\ batch' = <<>>
            /\ eng' = [eng EXCEPT !.pc = "fetch"]
    /\ UNCHANGED <<capVars, targets, tgt, pos, ickpt, work, isync, env,
                   applied, batchInfo, handover>>

\* Mutant of consume_loop_runs: the loop does not look at the stop flags.
consume_loop_ignores_stop(e) == TRUE

\* while self._running and not self._stop_event.is_set()
consume_loop_runs(e) == e.running /\ e.stop = "no"

\* one turn of the consume loop up to the fan-out: fetch_batch; an exception is
\* recorded (record_error) and the loop goes on; a batch without any target
\* call goes straight to _save_checkpoints
Fetch ==
    /\ eng.pc = "fetch"
    /\ consume_loop_runs(eng)
    /\ UNCHANGED <<hist, sync_errors, sync_positions>>
    /\ LET r     == fetch_batch(audit, reader.last_audit_id)
           tabs  == TableOrder(r.events)
           steps == StepsOf(tabs, r.events)
       IN  /\ reader' = [reader EXCEPT !.last_audit_id = r.last]
           /\ returned' = [returned EXCEPT !.ids = @ \o Ids(r.events),
                                         !.ever = @ \cup Range(Ids(r.events))]
           /\ batch' = r.events
           /\ IF r.raised
              THEN /\ eng' = [eng EXCEPT !.state = "error", !.last_error = TRUE]
                   /\ UNCHANGED <<work, consumed_ids, batchInfo>>
              ELSE IF r.events = <<>>
              THEN UNCHANGED <<eng, work, consumed_ids, batchInfo>>
              ELSE /\ batchInfo' = [max |-> MaxSeq(Ids(r.events)), before |-> pos,
                                    failed |-> {}, saved |-> FALSE, cut |-> {}]
                   /\ IF steps = <<>>
                      THEN /\ consumed_ids' = consumed_ids \o GroupedIds(tabs, r.events)
                           /\ work' = NoWork
                           /\ eng' = [eng EXCEPT !.pc = "save"]
                      ELSE /\ work' = [steps |-> steps, pending |-> targets]
                           /\ eng' = [eng EXCEPT !.pc = "process"]
                           /\ UNCHANGED consumed_ids
    /\ UNCHANGED <<capVars, targets, tgt, pos, ickpt, isync, env, applied,
                   startPos, handover>>

\* one target's call of the current step returns (ok) or raises; gather(...,
\* return_exceptions=True) waits for all targets and drops what they return.
\* After the last call of the batch the ids go to consumed_ids.
TargetWrite(failures) ==
    \E t \in work.pending, ok \in BOOLEAN, f \in failures :
        /\ eng.pc = "process"
        /\ hist' = IF ok THEN hist
                   ELSE FailedCall(hist, Head(work.steps).kind, f)
        /\ ok => eng.stop # "closed"
        /\ ~ok => (eng.stop # "no" \/ env.fails < MaxFail)
        /\ LET step == Head(work.steps)
               ids  == Ids(step.events)
               rest == Tail(work.steps)
               last == work.pending = {t}
           IN  /\ IF ok
                  THEN /\ tgt' = [tgt EXCEPT ![t] = StepEffect(@, step)]
                       /\ applied' = [ever |-> [applied.ever EXCEPT ![t] = @ \cup Range(ids)],
                                      run  |-> [applied.run EXCEPT ![t] = @ \o ids]]
                       /\ UNCHANGED <<env, batchInfo>>
                  ELSE /\ env' = IF eng.stop = "no"
                                 THEN [env EXCEPT !.fails = @ + 1] ELSE env
                       /\ batchInfo' = IF eng.stop = "no"
                                       THEN [batchInfo EXCEPT !.failed = @ \cup {t}]
                                       ELSE [batchInfo EXCEPT !.failed = @ \cup {t},
                                                              !.cut = @ \cup {t}]
                       /\ UNCHANGED <<tgt, applied>>
               /\ IF ~last
                  THEN /\ work' = [work EXCEPT !.pending = @ \ {t}]
                       /\ UNCHANGED <<eng, consumed_ids>>
                  ELSE IF rest # <<>> /\ eng.stop # "closed"
                  THEN /\ work' = [steps |-> rest, pending |-> targets]
                       /\ UNCHANGED <<eng, consumed_ids>>
                  ELSE /\ work' = NoWork
                       /\ consumed_ids' = consumed_ids \o GroupedIds(TableOrder(batch), batch)
                       /\ eng' = [eng EXCEPT !.pc = "save"]
        /\ UNCHANGED <<capVars, readVars, targets, pos, ickpt, isync, startPos,
                       handover, sync_errors, sync_positions>>

\* _save_checkpoints: save_position(max(audit_ids)) for every target, one
\* transaction of the checkpoint store per target, in configuration order
save_position(positions, target_name, last_audit_id) ==
    [positions EXCEPT ![target_name] = last_audit_id]

SaveCheckpoint ==
    /\ eng.pc = "save"
    /\ UNCHANGED <<hist, sync_errors, sync_positions>>
    /\ LET order == IF eng.stop = "closed" THEN <<>> ELSE TargetSeq(targets)
           done  == Cardinality({t \in targets : t \in work.pending})
           i     == done + 1
       IN  IF i <= Len(order)
           THEN /\ pos' = save_position(pos, order[i], MaxSeq(consumed_ids))
                /\ IF i = Len(order)
                   THEN /\ work' = NoWork
                        /\ consumed_ids' = <<>>
                        /\ eng' = [eng EXCEPT !.pc = "fetch"]
                        /\ batchInfo' = [batchInfo EXCEPT !.saved = TRUE]
                   ELSE /\ work' = [work EXCEPT !.pending = @ \cup {order[i]}]
                        /\ UNCHANGED <<eng, consumed_ids, batchInfo>>
           ELSE /\ work' = NoWork
                /\ consumed_ids' = <<>>
                /\ eng' = [eng EXCEPT !.pc = "fetch"]
                /\ UNCHANGED <<pos, batchInfo>>
    /\ UNCHANGED <<capVars, readVars, targets, tgt, ickpt, isync, env, applied,
                   startPos, handover>>

\* CheckpointStore.log_error: one row INSERTed into sync_errors.  No code of
\* the engine, the initial sync or the writers calls it.
log_error(errors, target_name, event_id) ==
    Append(errors, [target_name |-> target_name, event_id |-> event_id])

\* ------------------------------------------------------------- initial sync
\* InitialSync._fetch_batch: SELECT * FROM t [WHERE pk > ?] ORDER BY pk LIMIT n
\* on the committed source (last_pk 0: no row copied yet, first page)
RECURSIVE RowsAbove(_, _)
RowsAbove(table, k) ==
    IF k > MaxKey THEN <<>>
    ELSE (IF table[k] # 0 THEN <<RowImage(k, table[k])>> ELSE <<>>)
         \o RowsAbove(table, k + 1)

\* the rows whose name is v or more, ORDER BY name (equal names in id order)
RECURSIVE RowsByName(_, _)
RowsByName(table, v) ==
    IF v > MaxVal THEN <<>>
    ELSE SelectSeq(RowsAbove(table, 1), LAMBDA r : r.name = v)
         \o RowsByName(table, v + 1)

initial_fetch_batch(table, pk_column, last_pk, batch_size) ==
    LET rows == IF pk_column = "name" THEN RowsByName(table, last_pk + 1)
                ELSE RowsAbove(table, last_pk + 1)
    IN  SubSeq(rows, 1, Min(batch_size, Len(rows)))

\* Mutant of page_last_pk: the key of the first row of the page.
page_first_pk(rows, pk_column) ==
    CASE pk_column = "id" -> rows[1].id
      [] pk_column = "name" -> rows[1].name
      [] OTHER -> 0

\* rows[-1].get(pk_column): SELECT * has the columns id and name, so the
\* lookup of any other name (ROWID) gives None
page_last_pk(rows, pk_column) ==
    CASE pk_column = "id" -> rows[Len(rows)].id
      [] pk_column = "name" -> rows[Len(rows)].name
      [] OTHER -> 0

\* _get_effective_primary_key: the configured primary_key when it is not
\* empty; else PRAGMA table_info(?) is tried, which SQLite rejects (a PRAGMA
\* takes no bound parameter), the exception is swallowed and ROWID is used
get_effective_primary_key(configured) ==
    IF configured # "" THEN configured ELSE "ROWID"

\* Mutant of sync_table_skips: the stored status is not looked at.
sync_table_never_skips(ckpt) == FALSE

\* sync_table: a stored checkpoint with status completed ends the call
sync_table_skips(ckpt) == ckpt.status = "completed"

\* Mutant of gather_raises: the results of gather are dropped.
gather_drops_results(failed, ok) == FALSE

\* _sync_batch_to_all_targets: after gather, an exception among the results is
\* raised
gather_raises(failed, ok) == failed \/ ~ok

\* _run_initial_sync -> sync_table("users") up to the pagination loop: a
\* completed checkpoint skips the table, any other resumes after its last_pk;
\* primary_keys: what the mapping's primary_key may be configured as
SyncTableBegin(primary_keys) ==
  \E configured \in primary_keys :
    /\ eng.pc = "initial"
    /\ handover' = Len(audit)
    /\ IF sync_table_skips(ickpt)
       THEN /\ eng' = [eng EXCEPT !.pc = "incremental"]
            /\ hist' = [hist EXCEPT !.ret = ickpt.total_synced, !.reset = FALSE]
            /\ UNCHANGED isync
       ELSE /\ eng' = [eng EXCEPT !.pc = "init_fetch"]
            /\ isync' = [NoSync EXCEPT
                            !.pk_column = get_effective_primary_key(configured),
                            !.last_pk = ickpt.last_pk]
            /\ hist' = [hist EXCEPT !.resumed = hist.interrupted, !.reset = FALSE]
    /\ UNCHANGED <<capVars, readVars, targets, tgt, pos, ickpt, work,
                   consumed_ids, env, applied, startPos, batchInfo, sync_errors, sync_positions>>

\* _sync_with_pagination: the next page is read; an empty page ends the loop
\* and sync_table stores the completed checkpoint
InitFetch ==
    /\ eng.pc = "init_fetch"
    /\ isync.batch_num <= MaxKey
    /\ LET rows == initial_fetch_batch(src["users"], isync.pk_column,
                                       isync.last_pk, BatchSize)
       IN  IF eng.stop = "closed"
           THEN /\ eng' = [eng EXCEPT !.pc = "failed", !.state = "error",
                                      !.last_error = TRUE]
                /\ hist' = Interrupted(hist, isync)
                /\ isync' = NoSync
                /\ UNCHANGED ickpt
           ELSE IF rows = <<>>
           THEN /\ ickpt' = [status |-> "completed", last_pk |-> 0,
                             total_synced |-> isync.synced]
                /\ hist' = [hist EXCEPT !.ret = isync.synced, !.interrupted = FALSE]
                /\ isync' = NoSync
                /\ eng' = [eng EXCEPT !.pc = "incremental"]
           ELSE /\ isync' = [isync EXCEPT !.page = rows, !.pending = targets]
                /\ eng' = [eng EXCEPT !.pc = "init_write"]
                /\ hist' = [hist EXCEPT !.issued = @ \cup {rows[i].id : i \in DOMAIN rows}]
                /\ UNCHANGED ickpt
    /\ UNCHANGED <<capVars, readVars, targets, tgt, pos, work, consumed_ids,
                   env, applied, startPos, batchInfo, handover, sync_errors, sync_positions>>

\* _sync_batch_to_all_targets: batch_upsert of the page on every target, in
\* parallel; when all have ended, the first exception is raised (start() then
\* records the error), else the loop variables move on and every tenth batch
\* stores a running checkpoint
InitWrite(failures) ==
    \E t \in isync.pending, ok \in BOOLEAN, f \in failures :
        /\ eng.pc = "init_write"
        /\ ok => eng.stop # "closed"
        /\ ~ok => (eng.stop # "no" \/ env.fails < MaxFail)
        /\ tgt' = IF ok THEN [tgt EXCEPT ![t] = batch_upsert(@,
                                [i \in DOMAIN isync.page |-> transform(isync.page[i])])]
                  ELSE tgt
        /\ env' = IF ok \/ eng.stop # "no" THEN env
                  ELSE [env EXCEPT !.fails = @ + 1]
        /\ LET failed == gather_raises(isync.failed, ok)
               num    == isync.batch_num + 1
               synced == isync.synced + Len(isync.page)
               lastpk == page_last_pk(isync.page, isync.pk_column)
           IN  IF isync.pending # {t}
               THEN /\ isync' = [isync EXCEPT !.pending = @ \ {t}, !.failed = failed]
                    /\ hist' = IF ok THEN hist ELSE FailedCall(hist, "upsert", f)
                    /\ UNCHANGED <<eng, ickpt>>
               ELSE IF failed
               THEN /\ isync' = NoSync
                    /\ eng' = [eng EXCEPT !.pc = "failed", !.state = "error",
                                          !.last_error = TRUE]
                    /\ hist' = Interrupted(IF ok THEN hist
                                            ELSE FailedCall(hist, "upsert", f), isync)
                    /\ UNCHANGED ickpt
               ELSE /\ isync' = [pk_column |-> isync.pk_column,
                                 last_pk |-> lastpk, synced |-> synced,
                                 batch_num |-> num, page |-> <<>>,
                                 pending |-> {}, failed |-> FALSE]
                    /\ eng' = [eng EXCEPT !.pc = "init_fetch"]
                    /\ UNCHANGED hist
                    /\ ickpt' = IF num % CheckpointEvery = 0
                                THEN [status |-> "running", last_pk |-> lastpk,
                                      total_synced |-> synced]
                                ELSE ickpt
        /\ UNCHANGED <<capVars, readVars, targets, pos, work, consumed_ids,
                       applied, startPos, batchInfo, handover, sync_errors, sync_positions>>

\* stop() up to its first await: _running, the stop event and state PAUSED are
\* set and the writers' pools begin to close.  The consume loop is suspended
\* in gather or in a sleep, the initial sync in gather or after a page.
StopBegin ==
    /\ eng.running
    /\ env.stops < MaxStop
    /\ env' = [env EXCEPT !.stops = @ + 1]
    /\ eng.pc \in {"fetch", "process", "init_fetch", "init_write"}
    /\ eng' = [eng EXCEPT !.running = FALSE, !.state = "paused",
                          !.stop = "closing"]
    /\ UNCHANGED <<capVars, readVars, targets, tgt, pos, ickpt, work, isync,
                   consumed_ids, applied, startPos, batchInfo, handover,
                   hist, sync_errors, sync_positions>>

\* the rest of stop(): the pools are closed, the source connection is closed,
\* _targets = []
StopEnd ==
    /\ eng.stop = "closing"
    /\ eng.pc # "save"
    /\ eng' = [eng EXCEPT !.stop = "closed"]
    /\ UNCHANGED <<capVars, readVars, targets, tgt, pos, ickpt, work, isync,
                   consumed_ids, env, applied, startPos, batchInfo, handover,
                   hist, sync_errors, sync_positions>>

\* the while condition of the consume loop is false: the reader is stopped
\* and start() returns
LoopExit ==
    /\ eng.pc = "fetch"
    /\ ~consume_loop_runs(eng)
    /\ eng' = [eng EXCEPT !.pc = "returned"]
    /\ reader' = [reader EXCEPT !.running = FALSE]
    /\ UNCHANGED <<capVars, returned, batch, targets, tgt, pos, ickpt, work,
                   isync, consumed_ids, env, applied, startPos, batchInfo,
                   handover, hist, sync_errors, sync_positions>>

\* the engine process is killed: what it held in memory is gone, the stores,
\* the source and the targets stay
Crash ==
    /\ eng.pc # "down"
    /\ env.crashes < MaxCrash
    /\ env' = [env EXCEPT !.crashes = @ + 1]
    /\ eng' = EngineDown
    /\ reader' = [running |-> FALSE, last_audit_id |-> 0]
    /\ batch' = <<>>
    /\ work' = NoWork
    /\ isync' = NoSync
    /\ consumed_ids' = <<>>
    /\ batchInfo' = NoBatch
    /\ hist' = IF eng.pc \in {"init_fetch", "init_write"}
               THEN Interrupted(hist, isync) ELSE hist
    /\ UNCHANGED <<capVars, returned, targets, tgt, pos, ickpt, applied,
                   startPos, handover, sync_errors, sync_positions>>

\* with CDCConnection(...) as cdc: cdc.execute(stmt)  -- one statement, then
\* __exit__ commits
TransactionBlock(stmts) ==
    \E stmt \in stmts :
        /\ ~txn.open
        /\ Len(audit) < MaxAudit
        /\ ~StmtFails(txn.src, stmt)
        /\ LET tx == execute(txn, stmt, FALSE)
           IN  /\ src' = tx.src
               /\ audit' = tx.audit
               /\ writes' = tx.writes
               /\ txn' = [tx EXCEPT !.open = FALSE]
        /\ UNCHANGED <<readVars, engVars>>

InitEngine ==
    /\ targets = {"A"}
    /\ tgt = [t \in AllTargets |-> EmptyTable]
    /\ pos = [t \in AllTargets |-> 0]
    /\ ickpt = [status |-> "none", last_pk |-> 0, total_synced |-> 0]
    /\ eng = EngineDown
    /\ work = NoWork
    /\ isync = NoSync
    /\ consumed_ids = <<>>
    /\ env = [crashes |-> 0, fails |-> 0, stops |-> 0]
    /\ applied = [ever |-> [t \in AllTargets |-> {}],
                  run  |-> [t \in AllTargets |-> <<>>]]
    /\ startPos = [t \in AllTargets |-> 0]
    /\ batchInfo = NoBatch
    /\ handover = -1
    /\ hist = NoHist
    /\ sync_errors = <<>>
    /\ sync_positions = {}

\* ------------------------------------------------------------ capture spec
\* Writers on one connection: single statements and executemany on the
\* audited and the unaudited table, reads, commits and rollbacks; the audit
\* INSERT may raise.
CaptureStmts ==
    {StmtOf("INSERT", t, k, 1, "col", FALSE) : t \in Tables, k \in {1, 2}}
    \cup {StmtOf("UPDATE", t, 1, 2, w, sp) :
            t \in Tables, w \in {"col", "rowid"}, sp \in BOOLEAN}
    \cup {StmtOf("DELETE", t, 1, 0, w, FALSE) : t \in Tables, w \in {"col", "rowid"}}

CaptureNext ==
    \/ Execute(CaptureStmts \cup SelectStmts({"users"}), BOOLEAN)
    \/ ExecuteMany(CaptureStmts, {1, 2}, 0..2)
    \/ Commit
    \/ Rollback

CaptureInit == InitSource /\ InitReader /\ InitEngine

CaptureSpec == CaptureInit /\ [][CaptureNext]_vars

\* C1: whenever the connection has no transaction open (after commit() or
\* rollback()), the committed writes to an audited table and the committed
\* audit rows match one to one per table and operation: a business write and
\* its audit row are committed together or not at all.
C1_WriteAndAuditAtomic ==
    ~txn.open =>
        \A t \in Tables, op \in Ops :
            should_audit(t) =>
                Cardinality({i \in DOMAIN writes :
                                writes[i].table = t /\ writes[i].op = op})
                = Cardinality({i \in DOMAIN audit :
                                audit[i].table_name = t /\ audit[i].operation = op})

\* ------------------------------------------------------------ allow-list spec
\* One connection with enabled_tables = ["users"]: writes and reads on the
\* audited table and on the table outside the allow-list, no audit failure.
FilterStmts ==
    {StmtOf("INSERT", t, 1, 1, "col", FALSE) : t \in Tables}
    \cup {StmtOf("UPDATE", t, 1, 2, "col", FALSE) : t \in Tables}
    \cup {StmtOf("DELETE", t, 1, 0, "rowid", FALSE) : t \in Tables}
    \cup {StmtOf("SELECT", t, 1, 0, "col", FALSE) : t \in Tables}

FilterNext ==
    \/ Execute(FilterStmts, {FALSE})
    \/ Commit
    \/ Rollback

FilterInit == InitSource /\ InitReader /\ InitEngine

FilterSpec == FilterInit /\ [][FilterNext]_vars

C26_UpdateImagesExact ==
    \A stmt \in CaptureStmts :
        ( /\ stmt.op = "UPDATE"
          /\ should_audit(stmt.table)
          /\ txn.src[stmt.table][stmt.key] # 0 )
        => LET r   == execute(txn, stmt, FALSE)
               row == r.audit[Len(r.audit)]
           IN  /\ Len(r.audit) = Len(txn.audit) + 1
               /\ row.before_data = RowImage(stmt.key, txn.src[stmt.table][stmt.key])
               /\ row.after_data = RowImage(stmt.key, stmt.val)

\* C27: an UPDATE or DELETE on the audited table whose WHERE matches no row,
\* or whose image lookup raises, is executed and writes exactly one audit
\* row, with before_data and after_data NULL.
C27_NoRowOrFailedLookupGivesNullImages ==
    \A stmt \in CaptureStmts :
        ( /\ stmt.op \in {"UPDATE", "DELETE"}
          /\ should_audit(stmt.table)
          /\ (txn.src[stmt.table][stmt.key] = 0 \/ ParamCount(stmt) # 1) )
        => LET r   == execute(txn, stmt, FALSE)
               row == r.audit[Len(r.audit)]
           IN  /\ Len(r.audit) = Len(txn.audit) + 1
               /\ r.src = ApplyStmt(txn.src, stmt)
               /\ row.operation = stmt.op
               /\ row.before_data = NoData
               /\ row.after_data = NoData

\* C15: the connection's transaction never holds a business write to an
\* audited table whose audit row is missing: when the audit INSERT fails, the
\* statement's change does not stay behind for a later commit().
C15_AuditFailureRollsBack ==
    \A t \in Tables, op \in Ops :
        should_audit(t) =>
            Cardinality({i \in DOMAIN txn.writes :
                            txn.writes[i].table = t /\ txn.writes[i].op = op})
            = Cardinality({i \in DOMAIN txn.audit :
                            txn.audit[i].table_name = t /\ txn.audit[i].operation = op})

\* ------------------------------------------------------------- reader spec
\* One reader polling the audit table while writers commit and roll back.
ReaderStmts ==
    {StmtOf("INSERT", "users", 1, 1, "col", FALSE)}
    \cup {StmtOf("UPDATE", "users", 1, 2, w, sp) :
            w \in {"col", "rowid"}, sp \in BOOLEAN}
    \cup {StmtOf("DELETE", "users", 1, 0, w, FALSE) : w \in {"col", "rowid"}}

ReaderNext ==
    \/ Execute(ReaderStmts, {FALSE})
    \/ Commit
    \/ Rollback
    \/ ReaderStart
    \/ ReaderStop
    \/ FetchBatch
    \/ MarkConsumed

ReaderInit == InitSource /\ InitReader /\ InitEngine

ReaderSpec == ReaderInit /\ [][ReaderNext]_vars

\* C7: the ids one reader has returned, batch after batch, are strictly
\* increasing, and no committed unconsumed audit row above the reader's start
\* id and below an id already returned is missing from them.
C7_ReaderOrderedContiguous ==
    /\ \A i, j \in DOMAIN returned.ids :
          i < j => returned.ids[i] < returned.ids[j]
    /\ \A i \in DOMAIN audit :
          ( /\ ~audit[i].consumed
            /\ audit[i].id > returned.from
            /\ \E j \in DOMAIN returned.ids : audit[i].id < returned.ids[j] )
          => audit[i].id \in Range(returned.ids)

\* the reader has returned more ids than one batch holds: a later batch
\* followed an earlier one
C7_Witness ==
    /\ Len(returned.ids) > BatchSize
    /\ batch # <<>>
    /\ Len(batch) < Len(returned.ids)
    /\ reader.last_audit_id = returned.ids[Len(returned.ids)]

\* C19 as stated: a call of fetch_batch returns only rows not marked consumed
\* whose id is above every id this reader ever returned, and nothing when
\* every audit row is marked consumed.
C19_NeverSameRowTwice ==
    [][ LET n   == Len(returned.ids)
            new == IF Len(returned'.ids) > n
                   THEN SubSeq(returned'.ids, n + 1, Len(returned'.ids))
                   ELSE <<>>
        IN  /\ \A i \in DOMAIN new :
                  /\ ~audit[new[i]].consumed
                  /\ \A id \in returned.ever : new[i] > id
            /\ (\A i \in DOMAIN audit : audit[i].consumed)
                  => (new = <<>> /\ batch' \in {<<>>, batch})
      ]_vars

\* C19: the ids a call of fetch_batch adds to what the reader has returned
\* are ids of rows not marked consumed and are above every id the reader
\* returned since its last start(from_id); and when every committed audit
\* row is marked consumed, the call returns nothing.
C19_ReaderNeverRepeats ==
    [][ LET n   == Len(returned.ids)
            new == IF Len(returned'.ids) > n
                   THEN SubSeq(returned'.ids, n + 1, Len(returned'.ids))
                   ELSE <<>>
        IN  /\ \A i \in DOMAIN new :
                  /\ ~audit[new[i]].consumed
                  /\ \A j \in DOMAIN returned.ids : new[i] > returned.ids[j]
            /\ (\A i \in DOMAIN audit : audit[i].consumed)
                  => (new = <<>> /\ batch' \in {<<>>, batch})
      ]_vars

\* the reader has returned rows in two batches, all of them were marked
\* consumed, and nothing is left
C19_Witness ==
    /\ reader.running
    /\ Len(returned.ids) > BatchSize
    /\ Len(returned.ids) = Len(audit)
    /\ \A i \in DOMAIN audit : audit[i].consumed
    /\ batch = <<>>

\* ------------------------------------------------------------- decode spec
\* One reader on an audit table whose rows were written with every payload
\* their operation needs, some payload texts being no JSON.
DecodeRows ==
    {r \in [operation : Ops, before_data : {NoData, RowImage(1, 1), BadJson},
            after_data : {NoData, RowImage(1, 2), BadJson}] :
        /\ r.operation = "INSERT" => r.before_data = NoData /\ r.after_data # NoData
        /\ r.operation = "UPDATE" => r.before_data # NoData /\ r.after_data # NoData
        /\ r.operation = "DELETE" => r.before_data # NoData /\ r.after_data = NoData}

DecodeNext ==
    \/ ReaderStart
    \/ ReaderStop
    \/ FetchBatch
    \/ MarkConsumed

DecodeInit ==
    /\ InitReader
    /\ InitEngine
    /\ src = [t \in Tables |-> EmptyTable]
    /\ writes = <<>>
    /\ \E n \in 1..MaxAudit : \E f \in [1..n -> DecodeRows] :
        LET rows == [i \in 1..n |->
                        AuditRow(i, "users", f[i].operation, 1,
                                 f[i].before_data, f[i].after_data)]
        IN
          /\ audit = rows
          /\ txn = [open |-> FALSE, src |-> [t \in Tables |-> EmptyTable],
                    audit |-> rows, writes |-> <<>>]

DecodeSpec == DecodeInit /\ [][DecodeNext]_vars

\* C28: fetch_batch of a running reader does not raise on rows whose payload
\* text is no JSON: it returns every selected row as an event, with NULL in
\* the place of such a payload and the other payload as stored.
C28_MalformedJsonGivesNullPayload ==
    reader.running =>
        LET rows == fetch_unconsumed(audit, reader.last_audit_id, BatchSize)
            r    == fetch_batch(audit, reader.last_audit_id)
        IN  /\ ~r.raised
            /\ Len(r.events) = Len(rows)
            /\ \A i \in DOMAIN rows :
                  /\ r.events[i].audit_id = rows[i].id
                  /\ r.events[i].before_data =
                        (IF rows[i].before_data = BadJson THEN NoData
                         ELSE rows[i].before_data)
                  /\ r.events[i].after_data =
                        (IF rows[i].after_data = BadJson THEN NoData
                         ELSE rows[i].after_data)

\* ------------------------------------------------------------- engine spec
\* The streaming phase: start(run_initial=False), writers committing one
\* statement at a time, crashes and restarts, a second target added to the
\* configuration at a restart.
EngineStmts ==
    {StmtOf("INSERT", "users", 1, 1, "col", FALSE)}
    \cup {StmtOf("UPDATE", "users", 1, 2, w, FALSE) : w \in {"col", "rowid"}}
    \cup {StmtOf("DELETE", "users", 1, 0, w, FALSE) : w \in {"col", "rowid"}}

EngineNext ==
    \/ TransactionBlock(EngineStmts)
    \/ Start({{"A"}, {"A", "B"}}, {FALSE}, {TRUE})
    \/ IncrementalBegin
    \/ Fetch
    \/ TargetWrite(Failures)
    \/ SaveCheckpoint
    \/ Crash

EngineInit == InitSource /\ InitReader /\ InitEngine

EngineSpec == EngineInit /\ [][EngineNext]_vars

\* the consume loop is at its top and no committed unconsumed row is unread
CaughtUp ==
    /\ eng.pc = "fetch"
    /\ fetch_unconsumed(audit, reader.last_audit_id, 1) = <<>>

\* C2: every audit event of a mapped table at or below the persisted cursor of
\* a target has been applied to that target by a call that returned.
C2_CursorCoversOnlyApplied ==
    \A t \in AllTargets : \A i \in DOMAIN audit :
        (i <= pos[t] /\ get_table_mapping(audit[i].table_name))
            => i \in applied.ever[t]

\* C3: after a crash and a restart, once the stream has caught up, every
\* audit event above the cursor a target had at the restart has been applied
\* to that target at least once.
C3_AtLeastOnceAfterRestart ==
    (env.crashes > 0 /\ CaughtUp)
        => \A t \in targets : \A i \in DOMAIN audit :
              (i > startPos[t] /\ get_table_mapping(audit[i].table_name))
                  => i \in applied.ever[t]

\* C4: a batch whose writes all succeeded on one target and failed on the
\* other leaves the first target's cursor at the batch maximum and the other
\* target's cursor where it was before the batch.
C4_FailedTargetKeepsCursor ==
    (batchInfo.saved /\ targets = AllTargets)
        => \A a, b \in targets :
              (a # b /\ batchInfo.failed = {b})
                  => (pos[a] = batchInfo.max /\ pos[b] = batchInfo.before[b])

\* C5: no step lowers the persisted cursor of a target.
C5_CursorMonotone ==
    [][\A t \in AllTargets : pos'[t] >= pos[t]]_vars

\* C6: within one run of the engine, each target applies the events of the
\* table in strictly increasing audit_id order.
C6_AppliedInIdOrder ==
    \A t \in AllTargets : \A i, j \in DOMAIN applied.run[t] :
        i < j => applied.run[t][i] < applied.run[t][j]

\* C8: a run of the engine applies to a target no event at or below the
\* cursor that target had when the run started.
C8_NoReapplyBelowCursor ==
    \A t \in AllTargets : \A i \in DOMAIN applied.run[t] :
        applied.run[t][i] > startPos[t]

\* ------------------------------------------------------------------ stop spec
\* The engine with stop() called from another task at the points where the
\* engine's task is suspended; writers commit meanwhile.
StopStmts ==
    {StmtOf("INSERT", "users", 1, 1, "col", FALSE),
     StmtOf("UPDATE", "users", 1, 2, "col", FALSE),
     StmtOf("DELETE", "users", 1, 0, "rowid", FALSE)}

StopNext ==
    \/ TransactionBlock(StopStmts)
    \/ Start({{"A", "B"}}, BOOLEAN, {TRUE})
    \/ SyncTableBegin({primary_key})
    \/ InitFetch
    \/ InitWrite(ConnectionLost)
    \/ IncrementalBegin
    \/ Fetch
    \/ TargetWrite(ConnectionLost)
    \/ SaveCheckpoint
    \/ StopBegin
    \/ StopEnd
    \/ LoopExit

StopInit == InitSource /\ InitReader /\ InitEngine

StopSpec == StopInit /\ [][StopNext]_vars

\* C14: while a batch is being written or its cursors are being stored, no
\* stop() has begun to close the writers or the source; and the cursors have
\* never been stored for a batch that lost a write to a stop().
C14_StopWaitsForBatch ==
    /\ eng.pc \in {"process", "save"} => eng.stop = "no"
    /\ batchInfo.saved => batchInfo.cut = {}

\* The streaming phase with stop(): start(run_initial=False) on two targets.
StopLoopStmts ==
    {StmtOf("INSERT", "users", 1, 1, "col", FALSE),
     StmtOf("DELETE", "users", 1, 0, "rowid", FALSE)}

StopLoopNext ==
    \/ TransactionBlock(StopLoopStmts)
    \/ Start({{"A", "B"}}, {FALSE}, {TRUE})
    \/ IncrementalBegin
    \/ Fetch
    \/ TargetWrite(ConnectionLost)
    \/ SaveCheckpoint
    \/ StopBegin
    \/ StopEnd
    \/ LoopExit

\* Every task that can run does run: the engine's task takes its next step,
\* the task in stop() goes on closing.  Writers, start() and stop() are free.
StopFairSpec ==
    /\ StopInit
    /\ [][StopLoopNext]_vars
    /\ WF_vars(IncrementalBegin)
    /\ WF_vars(Fetch)
    /\ WF_vars(TargetWrite(ConnectionLost))
    /\ WF_vars(SaveCheckpoint)
    /\ WF_vars(StopEnd)
    /\ WF_vars(LoopExit)

InitialNext ==
    \/ Start({{"A"}, {"A", "B"}}, {TRUE}, {TRUE})
    \/ SyncTableBegin({primary_key})
    \/ InitFetch
    \/ InitWrite(ConnectionLost)
    \/ Crash

InitialInit ==
    /\ InitReader
    /\ InitEngine
    /\ \E n \in 0..MaxKey :
        LET t == [k \in Keys |-> IF k <= n THEN 1 ELSE 0]
        IN
          /\ src = [users |-> t, logs |-> EmptyTable]
          /\ txn = [open |-> FALSE, src |-> [users |-> t, logs |-> EmptyTable],
                    audit |-> <<>>, writes |-> <<>>]
    /\ audit = <<>>
    /\ writes = <<>>

InitialSpec == InitialInit /\ [][InitialNext]_vars

\* C11: when a sync_table that follows an interrupted one has returned, it
\* has copied only rows above the last row of the batches written before the
\* interruption, and the total it returned and stored is the rows copied
\* before the interruption plus those copied after it.
C11_ResumeCopiesRestAndTotalsAdd ==
    (hist.resumed /\ hist.ret >= 0 /\ eng.pc = "incremental")
        => /\ \A k \in hist.issued : k > hist.before_last
           /\ hist.ret = hist.before + Cardinality(hist.issued)
           /\ ickpt.total_synced = hist.ret

\* C12: when batch_upsert has raised on a target, the page's end takes
\* sync_table to its caller with the error and without a completed
\* checkpoint; from then on this start() copies nothing more and stores no
\* completed checkpoint.
C12_TargetFailureFailsTable ==
    [][ /\ ( /\ eng.pc = "init_write"
             /\ eng'.pc \notin {"init_write", "down"}
             /\ (isync.failed \/ env'.fails > env.fails) )
           => ( /\ eng'.pc = "failed"
                /\ eng'.state = "error"
                /\ ickpt'.status # "completed" )
        /\ eng.pc = "failed"
           => ( /\ tgt' = tgt
                /\ ickpt' = ickpt
                /\ ickpt.status # "completed" )
      ]_vars

\* sync_table has raised after one of two targets took the page and the
\* other refused it
C12_Witness ==
    /\ eng.pc = "failed"
    /\ targets = AllTargets
    /\ \E k \in hist.issued : tgt["A"][k] # tgt["B"][k]
    /\ src["users"][MaxKey] # 0

\* C13: sync_table on a table whose stored checkpoint is completed returns
\* the stored total_synced, gives no rows to any target and leaves the stored
\* checkpoint as it is.
C13_CompletedTableSkipped ==
    [][ ( /\ eng.pc = "initial"
          /\ eng'.pc \notin {"initial", "down"}
          /\ ickpt.status = "completed" )
        => ( /\ eng'.pc = "incremental"
             /\ hist'.ret = ickpt.total_synced
             /\ hist'.issued = {}
             /\ tgt' = tgt
             /\ ickpt' = ickpt )
      ]_vars

\* a restarted engine has skipped a table that an earlier run had copied
C13_Witness ==
    /\ eng.pc = "incremental"
    /\ env.crashes > 0
    /\ ickpt.status = "completed"
    /\ ickpt.total_synced > BatchSize
    /\ hist.ret = ickpt.total_synced
    /\ hist.issued = {}

\* The engine's task is scheduled as long as it can take a step: it polls,
\* its target calls return or raise, it stores the cursors.
EngineFairSpec ==
    /\ EngineInit
    /\ [][EngineNext]_vars
    /\ WF_vars(IncrementalBegin)
    /\ WF_vars(Fetch)
    /\ WF_vars(TargetWrite(Failures))
    /\ WF_vars(SaveCheckpoint)

\* C17: once a batch has been applied to all targets and the cursors have
\* been stored, every audit row of the batch is eventually marked consumed.
C17_BatchEventuallyConsumed ==
    \A i \in 1..MaxAudit :
        (batchInfo.saved /\ batchInfo.failed = {} /\ i \in Range(Ids(batch)))
            ~> (i <= Len(audit) /\ audit[i].consumed)

\* C23: an exception in a turn of the consume loop is recorded and leaves the
\* loop running, and the engine goes on to later batches: every committed
\* audit row that is above the reader's cursor and converts without error
\* is eventually returned to the loop (unless the process is killed).
C23_LoopSurvivesErrors ==
    /\ [][ (eng.pc = "fetch" /\ ~eng.last_error /\ eng'.last_error)
              => (eng'.pc = "fetch" /\ eng'.running) ]_vars
    /\ \A i \in 1..MaxAudit :
          ( /\ eng.last_error
            /\ eng.pc = "fetch"
            /\ i <= Len(audit)
            /\ i > reader.last_audit_id
            /\ ~ConvertRaises(audit[i]) )
          ~> (i \in Range(returned.ids) \/ eng.pc = "down")

\* C24: every target whose write has failed in the batch in progress has an
\* error row in sync_errors, and the status shows a last_error.
C24_TargetFailureRecorded ==
    batchInfo.failed # {} =>
        /\ eng.last_error
        /\ \A t \in batchInfo.failed :
              \E i \in DOMAIN sync_errors : sync_errors[i].target_name = t

\* C20: within one engine instance the state changes only idle -> running,
\* running -> paused and running -> error, and while the state is paused or
\* error nothing is applied to a target and no cursor is stored. (A step out
\* of pc "failed" or into pc "down" is the start of another instance.)
C20_StateMachine ==
    [][ (eng.pc # "failed" /\ eng'.pc # "down") =>
          /\ eng'.state # eng.state =>
                <<eng.state, eng'.state>> \in
                    { <<"idle", "running">>, <<"running", "paused">>,
                      <<"running", "error">> }
          /\ eng.state \in {"paused", "error"} =>
                (tgt' = tgt /\ pos' = pos /\ applied' = applied)
      ]_vars

\* C16: a target call that has raised to the engine had been attempted as
\* often as the retry policy says: once, and again while _should_retry holds
\* (max_retries further times for a retryable message, never for another).
C16_RetryableWriteRetried ==
    hist.fail.attempts > 0 =>
        hist.fail.attempts =
            1 + Cardinality({n \in 0..max_retries :
                                should_retry(n, hist.fail.retryable)})

\* ----------------------------------------------------------------- start spec
\* start() with and without initial sync, on one or two targets whose
\* connect() may raise; writers commit meanwhile.
StartNext ==
    \/ TransactionBlock(StopStmts)
    \/ Start({{"A"}, {"A", "B"}}, BOOLEAN, BOOLEAN)
    \/ SyncTableBegin({primary_key})
    \/ InitFetch
    \/ InitWrite(ConnectionLost)
    \/ IncrementalBegin
    \/ Fetch
    \/ TargetWrite(ConnectionLost)
    \/ SaveCheckpoint

StartInit == InitSource /\ InitReader /\ InitEngine

StartSpec == StartInit /\ [][StartNext]_vars

\* C21: a start() that ends at once with its error (connect() of a target has
\* raised) leaves the engine not running, in state error with last_error
\* recorded, and has copied nothing, applied nothing and stored nothing.
C21_ConnectFailureFailsStart ==
    [][ (eng.pc \in {"down", "failed"} /\ eng'.pc = "failed" /\ eng' # eng) =>
          /\ ~eng'.running
          /\ eng'.state = "error"
          /\ eng'.last_error
          /\ tgt' = tgt /\ pos' = pos /\ ickpt' = ickpt /\ reader' = reader
      ]_vars

\* ----------------------------------------------------------- hand-over spec
\* start(run_initial=True) on a source that holds rows from before the capture
\* was attached: the snapshot pages interleave with captured writes, then the
\* stream runs; crashes and restarts.
HandoverStmts ==
    {StmtOf("INSERT", "users", 1, 2, "col", FALSE),
     StmtOf("UPDATE", "users", 1, 2, "col", FALSE),
     StmtOf("UPDATE", "users", 1, 2, "rowid", FALSE),
     StmtOf("DELETE", "users", 1, 0, "col", FALSE),
     StmtOf("DELETE", "users", 3, 0, "rowid", FALSE)}

HandoverNext ==
    \/ TransactionBlock(HandoverStmts)
    \/ Start({{"A"}}, {TRUE}, {TRUE})
    \/ SyncTableBegin({primary_key})
    \/ InitFetch
    \/ InitWrite(ConnectionLost)
    \/ IncrementalBegin
    \/ Fetch
    \/ TargetWrite(ConnectionLost)
    \/ SaveCheckpoint
    \/ Crash

HandoverInit ==
    /\ InitReader
    /\ InitEngine
    /\ \E old \in SUBSET {1, 2, 3} :
        LET t == [k \in Keys |-> IF k \in old THEN 1 ELSE 0]
        IN
          /\ src = [users |-> t, logs |-> EmptyTable]
          /\ txn = [open |-> FALSE, src |-> [users |-> t, logs |-> EmptyTable],
                    audit |-> <<>>, writes |-> <<>>]
    /\ audit = <<>>
    /\ writes = <<>>

HandoverSpec == HandoverInit /\ [][HandoverNext]_vars

\* C9: once the initial phase has run, the streaming reader never moves past
\* an audit row above H (the maximum audit id when the initial sync began)
\* without having delivered it.
C9_NoRowDroppedAtHandover ==
    (handover >= 0 /\ reader.running)
        => \A i \in DOMAIN audit :
              (i > handover /\ i <= reader.last_audit_id)
                  => i \in Range(returned.ids)

\* C10: after the initial phase, once the stream has caught up, every target
\* holds exactly the rows of the source table.
C10_TargetEqualsSource ==
    (handover >= 0 /\ CaughtUp /\ ickpt.status = "completed")
        => \A t \in targets : tgt[t] = src["users"]

\* ------------------------------------------- ChangeEvent <-> AuditLog
\* the row keys a ChangeEvent can be built with (row_id: Union[int, str]):
\* an int, the empty text, a name, a text made of digits
EventKeys ==
    {[kind |-> "int", text |-> k] : k \in Vals}
    \cup {[kind |-> "str", text |-> n] : n \in {0} \cup {-v : v \in Vals} \cup Vals}

\* ChangeEvent(...) with an event_id that passes validate_event_id and images
\* that pass validate_data_consistency
ValidEvents ==
    {e \in [event_id : (1..MaxAudit) \X Tables \X (-MaxVal..MaxVal),
            audit_id : 1..MaxAudit, operation : Ops, table_name : Tables,
            row_id : EventKeys,
            before_data : {NoData, RowImage(1, 1)},
            after_data : {NoData, RowImage(1, 2)}] :
        /\ e.event_id = <<e.audit_id, e.table_name, e.row_id.text>>
        /\ ~ChangeEventRaises(e)}

\* event = AuditLog.from_change_event(batch[1]).to_change_event()
RoundTrip ==
    /\ Len(batch) = 1
    /\ ~AuditLogRaises(from_change_event(batch[1]))
    /\ batch' = Append(batch, to_change_event(from_change_event(batch[1])))
    /\ UNCHANGED <<capVars, reader, returned, engVars>>

RoundTripNext ==
    \/ RoundTrip

RoundTripInit ==
    /\ InitEngine
    /\ src = [t \in Tables |-> EmptyTable]
    /\ audit = <<>>
    /\ txn = [open |-> FALSE, src |-> [t \in Tables |-> EmptyTable],
              audit |-> <<>>, writes |-> <<>>]
    /\ writes = <<>>
    /\ reader = [running |-> FALSE, last_audit_id |-> 0]
    /\ returned = [from |-> 0, ids |-> <<>>, ever |-> {}]
    /\ \E e \in ValidEvents : batch = <<e>>

RoundTripSpec == RoundTripInit /\ [][RoundTripNext]_vars

\* C29: an event converted to an AuditLog and back has the audit id, the
\* table, the operation, the row key (value and type), the before image and
\* the after image it had, whether the key is an int or a str.
C29_RoundTripKeepsEvent ==
    Len(batch) = 2 /\ batch[1] \in ValidEvents =>
        /\ batch[2].audit_id = batch[1].audit_id
        /\ batch[2].table_name = batch[1].table_name
        /\ batch[2].operation = batch[1].operation
        /\ batch[2].row_id = batch[1].row_id
        /\ batch[2].before_data = batch[1].before_data
        /\ batch[2].after_data = batch[1].after_data

\* ------------------------------------------------ writing single events
\* Mutant of upsert: a plain INSERT, which fails when a row has the key.
insert_only(table, data) ==
    IF data = NoData \/ table[data.id] # 0
    THEN [raised |-> TRUE, table |-> table]
    ELSE [raised |-> FALSE, table |-> [table EXCEPT ![data.id] = data.name]]

\* MySQLTargetWriter.upsert: INSERT INTO t (cols) VALUES (...) ON DUPLICATE KEY
\* UPDATE col = VALUES(col) for every column of data, then commit; with no
\* column ({} for a missing after image) the statement is no SQL and raises
upsert(table, data) ==
    IF data = NoData THEN [raised |-> TRUE, table |-> table]
    ELSE [raised |-> FALSE, table |-> [table EXCEPT ![data.id] = data.name]]

\* BaseTargetWriter.write_event: delete(row_id) for a DELETE, else
\* upsert(after_data or {})
write_event(table, event) ==
    IF event.operation = "DELETE"
    THEN [raised |-> FALSE, table |-> delete(table, event.row_id)]
    ELSE upsert(table, event.after_data)

\* the keys of the rows the written events are about
WriterKeys == 1..2

\* the events of changes to rows of "users": the audit row of an INSERT, an
\* UPDATE or a DELETE by ROWID of a row, converted by to_change_event
WriterEvents ==
    {to_change_event(AuditRow(1, "users", "INSERT", k, NoData, RowImage(k, v))) :
        k \in WriterKeys, v \in Vals}
    \cup {to_change_event(AuditRow(1, "users", "UPDATE", k, RowImage(k, 1),
                                   RowImage(k, v))) :
        k \in WriterKeys, v \in Vals}
    \cup {to_change_event(AuditRow(1, "users", "DELETE", k, RowImage(k, v),
                                   NoData)) :
        k \in WriterKeys, v \in Vals}

\* await target.write_event(event, mapping) on target "A"; batch keeps the
\* events handed to it, env.fails counts the calls that raised
WriteEvent ==
    \E e \in WriterEvents :
        /\ Len(batch) < MaxAudit
        /\ LET r == write_event(tgt["A"], e)
           IN  /\ tgt' = [tgt EXCEPT !["A"] = r.table]
               /\ env' = IF r.raised THEN [env EXCEPT !.fails = @ + 1] ELSE env
        /\ batch' = Append(batch, e)
        /\ UNCHANGED <<capVars, reader, returned, targets, pos, ickpt, eng,
                       work, isync, consumed_ids, applied, startPos, batchInfo,
                       handover, hist, sync_errors, sync_positions>>

WriterNext ==
    \/ WriteEvent

WriterInit == InitSource /\ InitReader /\ InitEngine

WriterSpec == WriterInit /\ [][WriterNext]_vars

FilteredKeys == 1..3

\* start(run_initial=True) on a source whose rows have any name, with the
\* mapping's filter_condition configured
FilteredNext ==
    \/ Start({{"A"}, {"A", "B"}}, {TRUE}, {TRUE})
    \/ SyncTableBegin({primary_key})
    \/ InitFetch
    \/ InitWrite(ConnectionLost)

FilteredInit ==
    /\ InitReader
    /\ InitEngine
    /\ \E f \in [FilteredKeys -> {0} \cup Vals] :
        LET t == [k \in Keys |-> IF k \in FilteredKeys THEN f[k] ELSE 0]
        IN
          /\ src = [users |-> t, logs |-> EmptyTable]
          /\ txn = [open |-> FALSE, src |-> [users |-> t, logs |-> EmptyTable],
                    audit |-> <<>>, writes |-> <<>>]
    /\ audit = <<>>
    /\ writes = <<>>

FilteredSpec == FilteredInit /\ [][FilteredNext]_vars

\* C31: with a filter_condition configured, the initial sync upserts to no
\* target a source row that fails the predicate.
C31_InitialSyncHonoursFilter ==
    \A t \in AllTargets, k \in Keys :
        tgt[t][k] # 0 => filter_condition(RowImage(k, tgt[t][k]))

\* ------------------------------------------------------------ reset command
\* PRAGMA database_list in sync_table: the file name SQLite reports for the
\* main database is the absolute path of the file that was opened
database_list(db_path) == "/data/app.db"

NoCheckpoint == [status |-> "none", last_pk |-> 0, total_synced |-> 0]

\* CheckpointStore.delete_initial_checkpoint(source_db_path, "users") on the
\* row of "users" that is stored under stored_path
delete_initial_checkpoint(ckpt, stored_path, source_db_path) ==
    IF source_db_path = stored_path THEN NoCheckpoint ELSE ckpt

\* sqlite-cdc reset -c sync.yaml --table users, run by the operator while no
\* engine runs: the row is deleted under cfg.source.db_path; sync_table had
\* stored it under the path of PRAGMA database_list
Reset(paths) ==
    \E db_path \in paths :
        /\ eng.pc \in {"down", "failed"}
        /\ ~hist.reset
        /\ ickpt' = delete_initial_checkpoint(ickpt, database_list(db_path),
                                              db_path)
        /\ hist' = [hist EXCEPT !.reset = TRUE]
        /\ UNCHANGED <<capVars, readVars, targets, tgt, pos, eng, work, isync,
                       consumed_ids, env, applied, startPos, batchInfo,
                       handover, sync_errors, sync_positions>>

ResetNext ==
    \/ Start({{"A"}}, {TRUE}, {TRUE})
    \/ SyncTableBegin({primary_key})
    \/ InitFetch
    \/ InitWrite(ConnectionLost)
    \/ Crash
    \/ Reset(DbPaths)

ResetInit == InitialInit

ResetSpec == ResetInit /\ [][ResetNext]_vars

\* C32: the first sync_table that begins after a reset of the table does not
\* skip the table: it goes on to copy it, from the first row.
C32_ResetForcesRecopy ==
    [][ (hist.reset /\ eng.pc = "initial" /\ eng'.pc \notin {"initial", "down"})
           => (eng'.pc = "init_fetch" /\ isync'.last_pk = 0) ]_vars

\* --------------------------------------------------------- stored cursors
\* Mutant of store_position: a plain INSERT, the row of the pair stays.
insert_position(rows, source_db_path, target_name, position) ==
    rows \cup {[source_db_path |-> source_db_path, target_name |-> target_name,
                last_audit_id |-> position.last_audit_id,
                total_events |-> position.total_events]}

\* CheckpointStore.save_position: INSERT OR REPLACE INTO sync_positions; the
\* row that has the same (source_db_path, target_name) is deleted for the
\* UNIQUE constraint and the new one is inserted
store_position(rows, source_db_path, target_name, position) ==
    {r \in rows : ~(r.source_db_path = source_db_path
                     /\ r.target_name = target_name)}
    \cup {[source_db_path |-> source_db_path, target_name |-> target_name,
            last_audit_id |-> position.last_audit_id,
            total_events |-> position.total_events]}

\* CheckpointStore.load_position: fetchone() of the rows of the pair, or
\* SyncPosition(last_audit_id=0) with total_events at its default
load_position(rows, source_db_path, target_name) ==
    LET found == {r \in rows : r.source_db_path = source_db_path
                                /\ r.target_name = target_name}
    IN  IF found = {} THEN ZeroCursor
        ELSE LET row == CHOOSE r \in found : TRUE
             IN  [last_audit_id |-> row.last_audit_id,
                  total_events |-> row.total_events]

\* SyncPosition(last_audit_id, total_events), both ge=0
Positions == [last_audit_id : 0..MaxAudit, total_events : 0..1]

\* store.save_position(source_db_path, target_name, position)
SavePosition ==
    \E source_db_path \in DbPaths, target_name \in AllTargets,
       position \in Positions :
        /\ sync_positions' = store_position(sync_positions, source_db_path,
                                            target_name, position)
        /\ hist' = [hist EXCEPT !.saved[<<source_db_path, target_name>>] = position]
        /\ UNCHANGED <<capVars, readVars, targets, tgt, pos, ickpt, eng, work,
                       isync, consumed_ids, env, applied, startPos, batchInfo,
                       handover, sync_errors>>

PositionNext ==
    \/ SavePosition

PositionInit == InitSource /\ InitReader /\ InitEngine

PositionSpec == PositionInit /\ [][PositionNext]_vars

\* C33: load_position of a pair gives the last_audit_id and total_events of
\* the last save_position of that pair, and zero for both when there was
\* none; the table holds at most one row per pair.  (A save for one pair
\* therefore changes what no other pair loads.)
C33_LoadReturnsLastSave ==
    /\ \A p \in DbPaths \X AllTargets :
          load_position(sync_positions, p[1], p[2]) = hist.saved[p]
    /\ \A r1, r2 \in sync_positions :
          (r1.source_db_path = r2.source_db_path
              /\ r1.target_name = r2.target_name) => r1 = r2

\* two sources have a cursor for the same target, one of them saved, the
\* other never saved
C33_Witness ==
    /\ Cardinality(sync_positions) = 3
    /\ load_position(sync_positions, "app.db", "A").last_audit_id = 2
    /\ load_position(sync_positions, "/data/app.db", "A").last_audit_id = 1
    /\ load_position(sync_positions, "app.db", "B") = ZeroCursor
    /\ \A r \in sync_positions : r.total_events > 0

\* ------------------------------------------------------------ scoped blocks
\* what leaves the block: nothing, an exception of class Exception, or one
\* that is only a BaseException (KeyboardInterrupt, asyncio.CancelledError)
ExcTypes == {"None", "Exception", "BaseException"}

\* CDCConnection.__exit__: commit when exc_type is None, else rollback
exit_call(exc_type) == IF exc_type = "None" THEN "commit" ELSE "rollback"

\* CDCConnection.transaction: commit after the yield, rollback in
\* "except Exception"; any other exception passes the handler by
transaction_call(exc_type) ==
    CASE exc_type = "None" -> "commit"
      [] exc_type = "Exception" -> "rollback"
      [] OTHER -> "none"

ScopeForms == {"with", "transaction"}

\* with cdc: / with cdc.transaction(): -- entering does nothing to the
\* connection
ScopeEnter ==
    \E form \in ScopeForms :
        /\ hist.scope.form = "none"
        /\ hist' = [hist EXCEPT !.scope = [form |-> form, exc |-> "None",
                                           caller |-> "none"]]
        /\ UNCHANGED <<capVars, readVars, targets, tgt, pos, ickpt, eng, work,
                       isync, consumed_ids, env, applied, startPos, batchInfo,
                       handover, sync_errors, sync_positions>>

\* the block is left, normally or by an exception raised in it; __exit__
\* returns None and transaction() re-raises, so the exception goes on to the
\* caller
ScopeExit ==
    \E exc_type \in ExcTypes :
        /\ hist.scope.form # "none"
        /\ LET call == IF hist.scope.form = "with" THEN exit_call(exc_type)
                       ELSE transaction_call(exc_type)
           IN  CASE call = "commit" ->
                      /\ src' = txn.src
                      /\ audit' = txn.audit
                      /\ writes' = txn.writes
                      /\ txn' = [txn EXCEPT !.open = FALSE]
                 [] call = "rollback" ->
                      /\ txn' = [open |-> FALSE, src |-> src, audit |-> audit,
                                 writes |-> writes]
                      /\ UNCHANGED <<src, audit, writes>>
                 [] OTHER -> UNCHANGED <<src, audit, writes, txn>>
        /\ hist' = [hist EXCEPT !.scope =
                        [form |-> "none", exc |-> exc_type,
                         caller |-> IF exc_type = "None" THEN "returned"
                                    ELSE "raised"]]
        /\ UNCHANGED <<readVars, targets, tgt, pos, ickpt, eng, work, isync,
                       consumed_ids, env, applied, startPos, batchInfo,
                       handover, sync_errors, sync_positions>>

ScopeNext ==
    \/ ScopeEnter
    \/ Execute(FilterStmts, {FALSE})
    \/ ScopeExit

ScopeInit == InitSource /\ InitReader /\ InitEngine

ScopeSpec == ScopeInit /\ [][ScopeNext]_vars

\* C34: a scoped block left without an exception has committed the pending
\* business writes and their audit rows; a block left by an exception has
\* rolled both back, and its caller gets the exception.
C34_ScopeCommitsOrRollsBack ==
    [][ (hist.scope.form # "none" /\ hist'.scope.form = "none") =>
          IF hist'.scope.exc = "None"
          THEN /\ src' = txn.src
               /\ audit' = txn.audit
               /\ ~txn'.open
               /\ hist'.scope.caller = "returned"
          ELSE /\ src' = src
               /\ audit' = audit
               /\ ~txn'.open
               /\ txn'.src = src
               /\ txn'.audit = audit
               /\ hist'.scope.caller = "raised"
      ]_vars

\* ------------------------------------------- captured rows and the reader
\* C35: every committed audit row written by the capture layer converts to a
\* change event without an exception, so fetch_batch raises from no cursor
\* position.
C35_CapturedRowsConvert ==
    /\ \A i \in DOMAIN audit : ~ConvertRaises(audit[i])
    /\ \A last_id \in 0..Len(audit) : ~fetch_batch(audit, last_id).raised

\* C36: the cursor of a running reader is the largest id it has returned
\* since start(from_id), or from_id when it has returned none: a fetch_batch
\* that raises or returns nothing leaves it where it was.
C36_CursorIsLastReturned ==
    reader.running =>
        reader.last_audit_id =
            (IF returned.ids = <<>> THEN returned.from
             ELSE MaxSeq(returned.ids))

\* ------------------------------------------------------ pagination columns
\* mapping.primary_key as configured: the default, a column that is no key
\* of the table, or empty
PrimaryKeys == {"id", "name", ""}

\* start(run_initial=True) on a source that is not written to, whose rows
\* have any names, with any configured pagination column
PagingNext ==
    \/ Start({{"A"}, {"A", "B"}}, {TRUE}, {TRUE})
    \/ SyncTableBegin(PrimaryKeys)
    \/ InitFetch
    \/ InitWrite(ConnectionLost)

PagingInit == FilteredInit

PagingSpec == PagingInit /\ [][PagingNext]_vars

\* the pagination key of a row
KeyOf(row, pk_column) == IF pk_column = "name" THEN row.name ELSE row.id

\* C37: every page read is in ascending order of the pagination column; and
\* when a sync_table that began at the first row has returned, every target
\* holds every source row, each row was handed to the targets once (the rows
\* counted are as many as the rows handed over), and the count returned is
\* the number of rows of the table.
C37_CopiesEveryRowOnce ==
    /\ \A i, j \in DOMAIN isync.page :
          i < j => KeyOf(isync.page[i], isync.pk_column)
                      <= KeyOf(isync.page[j], isync.pk_column)
    /\ (eng.pc = "incremental" /\ hist.ret >= 0 /\ ~hist.interrupted
            /\ ~hist.resumed)
          => /\ \A t \in targets : tgt[t] = src["users"]
             /\ hist.ret = Cardinality({k \in Keys : src["users"][k] # 0})
             /\ hist.ret = Cardinality(hist.issued)

\* C38: every page that has been written moves last_pk strictly forward,
\* whatever the pagination column is, so the loop of _sync_with_pagination
\* comes to an empty page.
C38_PageAdvancesLastPk ==
    [][ (eng.pc = "init_write" /\ eng'.pc = "init_fetch")
           => isync'.last_pk > isync.last_pk ]_vars

C40_MarkConsumedFrame ==
    /\ [](\A ids \in SUBSET (1..MaxAudit) :
            LET marked == mark_consumed(audit, ids)
            IN  /\ DOMAIN marked = DOMAIN audit
                /\ \A i \in DOMAIN audit :
                      /\ marked[i] = [audit[i] EXCEPT !.consumed = marked[i].consumed]
                      /\ marked[i].consumed =
                            (audit[i].consumed \/ audit[i].id \in ids)
                /\ ids = {} => marked = audit)
    /\ [][ (audit' # audit /\ Len(audit') = Len(audit)) =>
              /\ src' = src
              /\ writes' = writes
              /\ \A i \in DOMAIN audit :
                    /\ audit'[i] = [audit[i] EXCEPT !.consumed = audit'[i].consumed]
                    /\ audit'[i] # audit[i] => audit[i].id \in Range(Ids(batch))
       ]_vars

\* a batch was marked while a later row stays unconsumed and the business
\* table holds a row
C40_Witness ==
    /\ Len(audit) >= 2
    /\ audit[1].consumed
    /\ ~audit[Len(audit)].consumed
    /\ src["users"][1] # 0
    /\ batch = <<>>

====
